---- MODULE Spec2Model ----
(***************************************************************************)
(* Reservation lifecycle of reserva-espacios-backend: the reservation      *)
(* service (reservas/service.py), the Redis expiry store                   *)
(* (redis_client/service.py), the expiration listener thread               *)
(* (redis_client/expiration_listener.py), the admin cancellation routes    *)
(* (reservas/routes.py) and the space-level routes (spaces/routes.py).     *)
(*                                                                         *)
(* Request workers and the listener thread run concurrently.               *)
(* create_reservation (on the workers) and process_expired_reservation (on *)
(* the listener thread) are modelled in two steps each: the query that     *)
(* loads and checks, and the flush+commit that writes.  SQLAlchemy's       *)
(* commit issues INSERT, or UPDATE .. WHERE id = pk, without re-checking   *)
(* what the query read, and no handler takes a row lock or relies on a     *)
(* unique constraint.  The other handlers are one step each.               *)
(***************************************************************************)
EXTENDS Integers, Sequences, FiniteSets, TLC

(* ------------------------------ bounds ------------------------------ *)
MaxSpaces == 1
MaxReservas == 2
MaxWorkers == 2
MaxUsers == 2
MaxTime == 1

(* ------------------------- program constants ------------------------ *)
PENDING_TTL_SECONDS == 30

PENDING == "PENDING"
RESERVED == "RESERVED"
EXPIRED == "EXPIRED"
CANCELLED == "CANCELLED"
CANCELLATION_REQUESTED == "CANCELLATION_REQUESTED"
CONFIRMADA == "confirmada"

\* error messages, written without accents and without the "(estado actual: ..)" suffix
ErrEspacioNoEncontrado == "Espacio no encontrado"
ErrYaPendiente == "El espacio ya tiene una reserva pendiente de confirmacion"
ErrYaReservado == "El espacio ya esta reservado"
ErrReservaNoEncontrada == "Reserva no encontrada"
ErrSoloConfirmarPendientes == "Solo se pueden confirmar reservas pendientes"
ErrSoloRechazarPendientes == "Solo se pueden rechazar reservas pendientes"
ErrNoActiva == "La reserva no esta activa"
ErrSoloRenovarPendientes == "Solo se puede renovar TTL de reservas pendientes"
ErrNoSePudoRenovar == "No se pudo renovar el TTL"
ErrStaleData == "StaleDataError"
ErrSinSolicitud == "La reserva no tiene solicitud de cancelacion pendiente"
ErrNoHayReserva == "No hay reserva para este stand"
ErrBloqueado == "El stand esta bloqueado"
ErrNoPermiso == "No tienes permiso para cancelar esta reserva"
ErrNoCancelable == "La reserva no se puede cancelar"

(* ------------------------------ domains ----------------------------- *)
Spaces == 1..MaxSpaces
NoSpace == 0
SpaceInputs == Spaces \cup {NoSpace}
ReservaIds == 1..MaxReservas
NoReserva == 0
Users == 1..MaxUsers
\* the users that hold reservations; every user of Users may ask for one to be cancelled
Owners == {1}
NoUser == 0
Workers == 1..MaxWorkers
NoTime == -1
\* ttl_seconds of refresh_reservation_ttl (0: not given) and of set_reservation
TtlInputs == {2}
SetTtlInputs == {1}
SpaceStatuses == {"BLOCKED", "AVAILABLE", "RESERVED", "PENDING"}

VARIABLES
    active,     \* Space.active, per space
    reservas,   \* table reservas: id -> row
    created,    \* number of rows ever inserted (ids are fresh uuids)
    redis,      \* keys reservation:<id> of the expiry store: id -> deadline
    now,        \* wall clock, seconds
    channel,    \* messages of __keyevent@0__:expired not yet read by the listener
    lst,        \* the listener thread inside process_expired_reservation
    wk,         \* request workers inside a service call
    resp,       \* what the last step returned to its caller
    out         \* websocket events emitted by the last step

vars == <<active, reservas, created, redis, now, channel, lst, wk, resp, out>>

(* ------------------------------ records ----------------------------- *)
IdleW == [pc |-> "idle", sid |-> NoSpace, uid |-> NoUser, raced |-> FALSE]
IdleL == [pc |-> "idle", rid |-> NoReserva]

Resp(op, ok, err, rid, sid, arg, raced) ==
    [op |-> op, ok |-> ok, err |-> err, rid |-> rid, sid |-> sid, arg |-> arg, raced |-> raced]
NoResp == Resp("none", FALSE, "", NoReserva, NoSpace, 0, FALSE)
Ok(op, rid, sid, arg) == Resp(op, TRUE, "", rid, sid, arg, FALSE)
Err(op, err, rid, sid, arg) == Resp(op, FALSE, err, rid, sid, arg, FALSE)

PlanoOf(s) == s

Event(name, r, row) ==
    [event |-> name, rid |-> r, estado |-> row.estado, plano_id |-> PlanoOf(row.espacio_id)]
SpaceEvent(s) ==
    [event |-> "space_updated", rid |-> NoReserva, estado |-> "", plano_id |-> PlanoOf(s)]

Rows == DOMAIN reservas
RowsOf(s) == {r \in Rows : reservas[r].espacio_id = s}
RowsIn(s, estados) == {r \in RowsOf(s) : reservas[r].estado \in estados}

SetEstado(r, e) == [reservas EXCEPT ![r].estado = e]
Insert(r, row) == [i \in Rows \cup {r} |-> IF i = r THEN row ELSE reservas[i]]
Delete(r) == [i \in Rows \ {r} |-> reservas[i]]

InFlightCreates == Cardinality({w \in Workers : wk[w].pc = "create_insert"})
CanAllocate == created + InFlightCreates < MaxReservas

(* --------------------------- expiry store ---------------------------- *)
\* A key whose deadline has passed is gone for every command, whether or
\* not the server has already purged it and published the expired event.
Live(r) == r \in DOMAIN redis /\ redis[r] > now
Lapsed(r) == r \in DOMAIN redis /\ redis[r] <= now
RedisSet(r, deadline) == [i \in DOMAIN redis \cup {r} |-> IF i = r THEN deadline ELSE redis[i]]
RedisDel(r) == [i \in DOMAIN redis \ {r} |-> redis[i]]
\* the message published when a command touches a lapsed key
Publish(r) == IF Lapsed(r) THEN Append(channel, r) ELSE channel

(* ------------------------------- Init -------------------------------- *)
Init ==
    /\ active = [s \in Spaces |-> TRUE]
    /\ reservas = <<>>
    /\ created = 0
    /\ redis = <<>>
    /\ now = 0
    /\ channel = <<>>
    /\ lst = IdleL
    /\ wk = [w \in Workers |-> IdleW]
    /\ resp = NoResp
    /\ out = <<>>

(* -------------------- ReservaService.create_reservation -------------- *)
\* mutant: an expired reservation still counts as holding the space
CreateActiveStates_WithExpired == {PENDING, RESERVED, EXPIRED}
\* mutant: the existence check looks for PENDING reservations only
CreateActiveStates_PendingOnly == {PENDING}
CreateActiveStates == {PENDING, RESERVED}
ConflictMessage(estado) == IF estado = PENDING THEN ErrYaPendiente ELSE ErrYaReservado
\* mutant: the record is created with the hold deadline of the documented flow
NewReserva_WithExpiry(s, u) ==
    [estado |-> PENDING, espacio_id |-> s, user_id |-> u, expires_at |-> now + PENDING_TTL_SECONDS]
NewReserva(s, u) == [estado |-> PENDING, espacio_id |-> s, user_id |-> u, expires_at |-> NoTime]

\* the route in front of the service: POST /spaces/<id>/reservar refuses a
\* blocked stand, POST /api/reservas does not look at the flag
RouteAdmits(route, s) == route = "api" \/ s \notin Spaces \/ active[s]

CreateCheck(w, route, s, u) ==
    /\ wk[w].pc = "idle"
    /\ out' = <<>>
    /\ UNCHANGED <<active, reservas, created, redis, now, channel, lst>>
    /\ IF ~RouteAdmits(route, s)
         THEN /\ resp' = Err("create", ErrBloqueado, NoReserva, s, 0)
              /\ wk' = wk
       ELSE IF s \notin Spaces
         THEN /\ resp' = Err("create", ErrEspacioNoEncontrado, NoReserva, s, 0)
              /\ wk' = wk
       ELSE IF RowsIn(s, CreateActiveStates) # {}
         THEN /\ \E existing \in RowsIn(s, CreateActiveStates) :
                    resp' = Err("create", ConflictMessage(reservas[existing].estado),
                                NoReserva, s, 0)
              /\ wk' = wk
       ELSE /\ CanAllocate
            /\ resp' = NoResp
            /\ wk' = [wk EXCEPT ![w] = [pc |-> "create_insert", sid |-> s, uid |-> u,
                                        raced |-> FALSE]]

CreateInsert(w) ==
    /\ wk[w].pc = "create_insert"
    /\ LET r == created + 1
           row == NewReserva(wk[w].sid, wk[w].uid)
       IN /\ reservas' = Insert(r, row)
          /\ created' = r
          /\ out' = <<Event("reservation_created", r, row)>>
          /\ resp' = Resp("create", TRUE, "", r, wk[w].sid, 0, wk[w].raced)
          /\ wk' = [v \in Workers |->
                      IF v = w THEN IdleW
                      ELSE IF wk[v].pc = "create_insert" /\ wk[v].sid = wk[w].sid
                        THEN [wk[v] EXCEPT !.raced = TRUE]
                      ELSE wk[v]]
    /\ UNCHANGED <<active, redis, now, channel, lst>>

(* ------------------- ReservaService.confirm_reservation -------------- *)
CanConfirm(estado) == estado = PENDING
\* the Redis commands confirm_reservation issues for the reservation's key
ConfirmRedis(r) == redis

ConfirmReservation(r) ==
    /\ UNCHANGED <<active, created, now, channel, lst, wk>>
    /\ IF r \notin Rows
         THEN /\ resp' = Err("confirm", ErrReservaNoEncontrada, r, NoSpace, 0)
              /\ out' = <<>>
              /\ UNCHANGED <<reservas, redis>>
       ELSE IF ~CanConfirm(reservas[r].estado)
         THEN /\ resp' = Err("confirm", ErrSoloConfirmarPendientes, r, NoSpace, 0)
              /\ out' = <<>>
              /\ UNCHANGED <<reservas, redis>>
       ELSE /\ reservas' = SetEstado(r, RESERVED)
            /\ redis' = ConfirmRedis(r)
            /\ out' = <<Event("reservation_updated", r, reservas'[r])>>
            /\ resp' = Ok("confirm", r, reservas[r].espacio_id, 0)

(* -------------------- ReservaService.reject_reservation -------------- *)
\* mutant: reject accepts what cancel accepts
CanReject_OrReserved(estado) == estado \in {PENDING, RESERVED}
CanReject(estado) == estado = PENDING

RejectReservation(r) ==
    /\ UNCHANGED <<active, created, redis, now, channel, lst, wk>>
    /\ IF r \notin Rows
         THEN /\ resp' = Err("reject", ErrReservaNoEncontrada, r, NoSpace, 0)
              /\ out' = <<>>
              /\ UNCHANGED reservas
       ELSE IF ~CanReject(reservas[r].estado)
         THEN /\ resp' = Err("reject", ErrSoloRechazarPendientes, r, NoSpace, 0)
              /\ out' = <<>>
              /\ UNCHANGED reservas
       ELSE /\ reservas' = SetEstado(r, CANCELLED)
            /\ out' = <<Event("reservation_cancelled", r, reservas'[r])>>
            /\ resp' = Ok("reject", r, reservas[r].espacio_id, 0)

(* -------------------- ReservaService.cancel_reservation -------------- *)
\* mutant: a reservation awaiting a cancellation decision counts as active
CanCancel_OrRequested(estado) == estado \in {PENDING, RESERVED, CANCELLATION_REQUESTED}
CanCancel(estado) == estado \in {PENDING, RESERVED}

CancelReservation(r) ==
    /\ UNCHANGED <<active, created, now, lst, wk>>
    /\ IF r \notin Rows
         THEN /\ resp' = Err("cancel", ErrReservaNoEncontrada, r, NoSpace, 0)
              /\ out' = <<>>
              /\ UNCHANGED <<reservas, redis, channel>>
       ELSE IF ~CanCancel(reservas[r].estado)
         THEN /\ resp' = Err("cancel", ErrNoActiva, r, NoSpace, 0)
              /\ out' = <<>>
              /\ UNCHANGED <<reservas, redis, channel>>
       ELSE /\ redis' = RedisDel(r)
            /\ channel' = Publish(r)
            /\ reservas' = SetEstado(r, CANCELLED)
            /\ out' = <<Event("reservation_cancelled", r, reservas'[r])>>
            /\ resp' = Ok("cancel", r, reservas[r].espacio_id, 0)

(* ------------------------ RedisService.set_reservation --------------- *)
\* SETEX key ttl value.  The service has no caller in the repository; the
\* holds it registers are the ones the module documents, for reservations
\* that are PENDING, with an explicit ttl.
SetReservation(r, ttl) ==
    /\ r \in Rows
    /\ reservas[r].estado = PENDING
    /\ ttl > 0
    /\ redis' = RedisSet(r, now + ttl)
    /\ resp' = Ok("set_reservation", r, reservas[r].espacio_id, ttl)
    /\ out' = <<>>
    /\ UNCHANGED <<active, reservas, created, now, channel, lst, wk>>

(* ------------------------ RedisService.refresh_ttl ------------------- *)
\* EXPIRE key ttl: 1 when the key exists, 0 when it does not
RefreshTtl(r) == Live(r)

(* ----------------- ReservaService.refresh_reservation_ttl ------------ *)
\* mutant: the state of the reservation is not checked before renewing
CanRefresh_AnyState(estado) == TRUE
CanRefresh(estado) == estado = PENDING
EffectiveTtl(ttl) == IF ttl # 0 THEN ttl ELSE PENDING_TTL_SECONDS
ExpiresAt(ttl) == now + ttl

RefreshReservationTtl(r, ttl_seconds) ==
    /\ UNCHANGED <<active, created, now, lst, wk>>
    /\ IF r \notin Rows
         THEN /\ resp' = Err("refresh_ttl", ErrReservaNoEncontrada, r, NoSpace, ttl_seconds)
              /\ out' = <<>>
              /\ UNCHANGED <<reservas, redis, channel>>
       ELSE IF ~CanRefresh(reservas[r].estado)
         THEN /\ resp' = Err("refresh_ttl", ErrSoloRenovarPendientes, r, NoSpace, ttl_seconds)
              /\ out' = <<>>
              /\ UNCHANGED <<reservas, redis, channel>>
       ELSE IF ~RefreshTtl(r)
         THEN /\ resp' = Err("refresh_ttl", ErrNoSePudoRenovar, r, NoSpace, ttl_seconds)
              /\ out' = <<>>
              /\ redis' = RedisDel(r)
              /\ channel' = Publish(r)
              /\ UNCHANGED reservas
       ELSE LET ttl == EffectiveTtl(ttl_seconds)
            IN /\ redis' = RedisSet(r, now + ttl)
               /\ reservas' = [reservas EXCEPT ![r].expires_at = ExpiresAt(ttl)]
               /\ out' = <<Event("reservation_updated", r, reservas'[r])>>
               /\ resp' = Ok("refresh_ttl", r, reservas[r].espacio_id, ttl_seconds)
               /\ UNCHANGED channel

(* ------------------------------- time -------------------------------- *)
Tick ==
    /\ now < MaxTime
    /\ now' = now + 1
    /\ resp' = NoResp
    /\ out' = <<>>
    /\ UNCHANGED <<active, reservas, created, redis, channel, lst, wk>>

\* Redis purges a lapsed key and publishes it on __keyevent@0__:expired
KeyExpires(r) ==
    /\ Lapsed(r)
    /\ redis' = RedisDel(r)
    /\ channel' = Append(channel, r)
    /\ resp' = NoResp
    /\ out' = <<>>
    /\ UNCHANGED <<active, reservas, created, now, lst, wk>>

(* ------ RedisExpirationListener._listen -> process_expired_reservation *)
\* mutant: the handler expires whatever it finds
StillPending_NoRecheck(estado) == TRUE
StillPending(estado) == estado = PENDING

HandleExpiryRead ==
    /\ lst.pc = "idle"
    /\ channel # <<>>
    /\ channel' = Tail(channel)
    /\ out' = <<>>
    /\ UNCHANGED <<active, reservas, created, redis, now, wk>>
    /\ LET r == Head(channel)
       IN IF r \notin Rows
            THEN /\ resp' = Err("process_expired", ErrReservaNoEncontrada, r, NoSpace, 0)
                 /\ lst' = IdleL
          ELSE IF ~StillPending(reservas[r].estado)
            THEN /\ resp' = Err("process_expired", "no esta en estado PENDING", r, NoSpace, 0)
                 /\ lst' = IdleL
          ELSE /\ resp' = NoResp
               /\ lst' = [pc |-> "commit", rid |-> r]

HandleExpiryCommit ==
    /\ lst.pc = "commit"
    /\ lst' = IdleL
    /\ UNCHANGED <<active, created, redis, now, channel, wk>>
    /\ LET r == lst.rid
       IN IF r \notin Rows
            THEN /\ resp' = Err("process_expired", ErrStaleData, r, NoSpace, 0)
                 /\ out' = <<>>
                 /\ UNCHANGED reservas
          ELSE /\ reservas' = SetEstado(r, EXPIRED)
               /\ out' = <<Event("reservation_expired", r, reservas'[r])>>
               /\ resp' = Ok("process_expired", r, reservas[r].espacio_id, 0)

(* -------------------- ReservaService.request_cancellation ------------ *)
\* mutant: the requester is not compared with the owner
IsOwner_Anyone(r, requester) == TRUE
IsOwner(r, requester) == reservas[r].user_id = requester

RequestCancellation(r, requester) ==
    /\ UNCHANGED <<active, created, redis, now, channel, lst, wk>>
    /\ IF r \notin Rows
         THEN /\ resp' = Err("request_cancellation", ErrReservaNoEncontrada, r, NoSpace, requester)
              /\ out' = <<>>
              /\ UNCHANGED reservas
       ELSE IF ~IsOwner(r, requester)
         THEN /\ resp' = Err("request_cancellation", ErrNoPermiso, r, NoSpace, requester)
              /\ out' = <<>>
              /\ UNCHANGED reservas
       ELSE IF reservas[r].estado = PENDING
         THEN /\ reservas' = SetEstado(r, CANCELLED)
              /\ out' = <<Event("reservation_cancelled", r, reservas'[r])>>
              /\ resp' = Ok("request_cancellation", r, reservas[r].espacio_id, requester)
       ELSE IF reservas[r].estado = RESERVED
         THEN /\ reservas' = SetEstado(r, CANCELLATION_REQUESTED)
              /\ out' = <<Event("cancellation_requested", r, reservas'[r])>>
              /\ resp' = Ok("request_cancellation", r, reservas[r].espacio_id, requester)
       ELSE /\ resp' = Err("request_cancellation", ErrNoCancelable, r, NoSpace, requester)
            /\ out' = <<>>
            /\ UNCHANGED reservas

(* ----------- routes approve_cancellation / reject_cancellation ------- *)
\* mutant: a confirmed reservation is taken as having a request
HasCancellationRequest_OrReserved(estado) == estado \in {CANCELLATION_REQUESTED, RESERVED}
\* mutant: an already cancelled reservation is taken as having a request
HasCancellationRequest_OrCancelled(estado) == estado \in {CANCELLATION_REQUESTED, CANCELLED}
HasCancellationRequest(estado) == estado = CANCELLATION_REQUESTED

\* decision: CANCELLED (approve-cancellation) or RESERVED (reject-cancellation)
DecideCancellation(op, r, decision, event) ==
    /\ UNCHANGED <<active, created, redis, now, channel, lst, wk>>
    /\ IF r \notin Rows
         THEN /\ resp' = Err(op, ErrReservaNoEncontrada, r, NoSpace, 404)
              /\ out' = <<>>
              /\ UNCHANGED reservas
       ELSE IF ~HasCancellationRequest(reservas[r].estado)
         THEN /\ resp' = Err(op, ErrSinSolicitud, r, NoSpace, 400)
              /\ out' = <<>>
              /\ UNCHANGED reservas
       ELSE /\ reservas' = SetEstado(r, decision)
            /\ out' = <<Event(event, r, reservas'[r])>>
            /\ resp' = Ok(op, r, reservas[r].espacio_id, 200)

ApproveCancellation(r) ==
    DecideCancellation("approve_cancellation", r, CANCELLED, "reservation_cancelled")

RejectCancellation(r) ==
    DecideCancellation("reject_cancellation", r, RESERVED, "reservation_updated")

(* ------------------------- spaces/routes.py -------------------------- *)
\* PATCH /spaces/<id> with a status
ShortcutCancels == {PENDING, RESERVED}
AdminReserva(s, estado) ==
    [estado |-> estado, espacio_id |-> s, user_id |-> NoUser, expires_at |-> NoTime]

UpdateSpace(s, status) ==
    /\ UNCHANGED <<redis, now, channel, lst, wk>>
    /\ IF s \notin Spaces
         THEN /\ resp' = Err("update_space", ErrEspacioNoEncontrado, NoReserva, s, 404)
              /\ out' = <<>>
              /\ UNCHANGED <<active, reservas, created>>
       ELSE /\ resp' = Ok("update_space", NoReserva, s, 200)
            /\ out' = <<SpaceEvent(s)>>
            /\ active' = [active EXCEPT ![s] = (status # "BLOCKED")]
            /\ IF status \in {"BLOCKED", "AVAILABLE"}
                 THEN /\ reservas' = [r \in Rows |->
                            IF reservas[r].espacio_id = s /\ reservas[r].estado \in ShortcutCancels
                              THEN [reservas[r] EXCEPT !.estado = CANCELLED]
                              ELSE reservas[r]]
                      /\ UNCHANGED created
               ELSE IF status = "RESERVED"
                 THEN IF RowsIn(s, {PENDING}) # {}
                        THEN /\ \E pending \in RowsIn(s, {PENDING}) :
                                   reservas' = SetEstado(pending, RESERVED)
                             /\ UNCHANGED created
                      ELSE IF RowsIn(s, {RESERVED}) # {}
                        THEN UNCHANGED <<reservas, created>>
                      ELSE /\ CanAllocate
                           /\ reservas' = Insert(created + 1, AdminReserva(s, RESERVED))
                           /\ created' = created + 1
               ELSE IF RowsIn(s, {PENDING, RESERVED}) # {}
                 THEN UNCHANGED <<reservas, created>>
               ELSE /\ CanAllocate
                    /\ reservas' = Insert(created + 1, AdminReserva(s, PENDING))
                    /\ created' = created + 1

\* DELETE /spaces/<id>/reserva: deletes the row filter_by(espacio_id).first() returns
CancelarReserva(s) ==
    /\ UNCHANGED <<active, created, redis, now, channel, lst, wk>>
    /\ IF RowsOf(s) = {}
         THEN /\ resp' = Err("cancelar_reserva", ErrNoHayReserva, NoReserva, s, 404)
              /\ out' = <<>>
              /\ UNCHANGED reservas
       ELSE \E r \in RowsOf(s) :
              /\ reservas' = Delete(r)
              /\ out' = <<Event("reservation_cancelled", r, reservas[r])>>
              /\ resp' = Ok("cancelar_reserva", r, s, 200)

\* PATCH /spaces/<id>/reserva/confirmar
ConfirmarReserva(s) ==
    /\ UNCHANGED <<active, created, redis, now, channel, lst, wk>>
    /\ out' = <<>>
    /\ IF RowsOf(s) = {}
         THEN /\ resp' = Err("confirmar_reserva", ErrNoHayReserva, NoReserva, s, 404)
              /\ UNCHANGED reservas
       ELSE \E r \in RowsOf(s) :
              /\ reservas' = SetEstado(r, CONFIRMADA)
              /\ resp' = Ok("confirmar_reserva", r, s, 200)

\* PATCH /spaces/<id>/bloquear (flag FALSE) and /desbloquear (flag TRUE)
SetActive(op, s, flag) ==
    /\ UNCHANGED <<reservas, created, redis, now, channel, lst, wk>>
    /\ out' = <<>>
    /\ IF s \notin Spaces
         THEN /\ resp' = Err(op, ErrEspacioNoEncontrado, NoReserva, s, 404)
              /\ UNCHANGED active
       ELSE /\ active' = [active EXCEPT ![s] = flag]
            /\ resp' = Ok(op, NoReserva, s, 200)

BloquearSpace(s) == SetActive("bloquear_space", s, FALSE)
DesbloquearSpace(s) == SetActive("desbloquear_space", s, TRUE)

(* --------------------------- specifications -------------------------- *)
\* the commands of the reservation service and of the admin routes
NextService ==
    \/ \E w \in Workers, route \in {"api", "spaces"}, s \in SpaceInputs, u \in Owners :
          CreateCheck(w, route, s, u)
    \/ \E w \in Workers : CreateInsert(w)
    \/ \E r \in ReservaIds : ConfirmReservation(r)
    \/ \E r \in ReservaIds : RejectReservation(r)
    \/ \E r \in ReservaIds : CancelReservation(r)
    \/ \E r \in ReservaIds, u \in Users : RequestCancellation(r, u)
    \/ \E r \in ReservaIds : ApproveCancellation(r)
    \/ \E r \in ReservaIds : RejectCancellation(r)

\* the expiry store, the clock and the listener thread
NextExpiry ==
    \/ \E r \in ReservaIds, ttl \in SetTtlInputs : SetReservation(r, ttl)
    \/ \E r \in ReservaIds, ttl \in TtlInputs : RefreshReservationTtl(r, ttl)
    \/ Tick
    \/ \E r \in ReservaIds : KeyExpires(r)
    \/ HandleExpiryRead
    \/ HandleExpiryCommit

\* the space-level routes, which never touch the expiry store
NextSpaces ==
    \/ \E s \in SpaceInputs, status \in SpaceStatuses : UpdateSpace(s, status)
    \/ \E s \in Spaces : CancelarReserva(s)
    \/ \E s \in Spaces : ConfirmarReserva(s)
    \/ \E s \in SpaceInputs : BloquearSpace(s)
    \/ \E s \in SpaceInputs : DesbloquearSpace(s)

\* the reservation service with its expiry path
Next == NextService \/ NextExpiry
Spec == Init /\ [][Next]_vars

\* the reservation service with the space-level routes
NextWithSpaces == NextService \/ NextSpaces
SpecSpaces == Init /\ [][NextWithSpaces]_vars

(* ------------------- storage and broadcast failures ------------------ *)
\* Every handler runs commit and emit inside try/except Exception, which
\* rolls the session back and returns (None, str(e)).
ErrStorage == "OperationalError"
ErrBroadcast == "emit failed"
\* where the handler raised: at db.session.commit() or at the emit_* call
Faults == {"commit", "emit"}
FaultMessage(fault) == IF fault = "commit" THEN ErrStorage ELSE ErrBroadcast
Committed(fault) == fault # "commit"
\* mutant: the event is sent before the commit
Emitted_BeforeCommit(fault, events) == IF fault = "commit" THEN events ELSE <<>>
\* what a raising handler has delivered: the emit comes after the commit
Emitted(fault, events) == <<>>

CreateInsertFails(w, fault) ==
    /\ wk[w].pc = "create_insert"
    /\ LET r == created + 1
           row == NewReserva(wk[w].sid, wk[w].uid)
       IN /\ IF Committed(fault)
               THEN reservas' = Insert(r, row) /\ created' = r
               ELSE UNCHANGED <<reservas, created>>
          /\ out' = Emitted(fault, <<Event("reservation_created", r, row)>>)
          /\ resp' = Err("create", FaultMessage(fault), NoReserva, wk[w].sid, 0)
          /\ wk' = [v \in Workers |->
                      IF v = w THEN IdleW
                      ELSE IF Committed(fault) /\ wk[v].pc = "create_insert" /\ wk[v].sid = wk[w].sid
                        THEN [wk[v] EXCEPT !.raced = TRUE]
                      ELSE wk[v]]
    /\ UNCHANGED <<active, redis, now, channel, lst>>

ConfirmReservationFails(r, fault) ==
    /\ r \in Rows
    /\ CanConfirm(reservas[r].estado)
    /\ reservas' = IF Committed(fault) THEN SetEstado(r, RESERVED) ELSE reservas
    /\ redis' = ConfirmRedis(r)
    /\ out' = Emitted(fault, <<Event("reservation_updated", r, SetEstado(r, RESERVED)[r])>>)
    /\ resp' = Err("confirm", FaultMessage(fault), r, NoSpace, 0)
    /\ UNCHANGED <<active, created, now, channel, lst, wk>>

\* RedisService.delete_reservation has run before the commit is tried
CancelReservationFails(r, fault) ==
    /\ r \in Rows
    /\ CanCancel(reservas[r].estado)
    /\ redis' = RedisDel(r)
    /\ channel' = Publish(r)
    /\ reservas' = IF Committed(fault) THEN SetEstado(r, CANCELLED) ELSE reservas
    /\ out' = Emitted(fault, <<Event("reservation_cancelled", r, SetEstado(r, CANCELLED)[r])>>)
    /\ resp' = Err("cancel", FaultMessage(fault), r, NoSpace, 0)
    /\ UNCHANGED <<active, created, now, lst, wk>>

\* RedisService.refresh_ttl has run before the commit is tried
RefreshReservationTtlFails(r, ttl_seconds, fault) ==
    /\ r \in Rows
    /\ CanRefresh(reservas[r].estado)
    /\ RefreshTtl(r)
    /\ LET ttl == EffectiveTtl(ttl_seconds)
           row == [reservas[r] EXCEPT !.expires_at = ExpiresAt(ttl)]
       IN /\ redis' = RedisSet(r, now + ttl)
          /\ reservas' = IF Committed(fault) THEN [reservas EXCEPT ![r] = row] ELSE reservas
          /\ out' = Emitted(fault, <<Event("reservation_updated", r, row)>>)
          /\ resp' = Err("refresh_ttl", FaultMessage(fault), r, NoSpace, ttl_seconds)
    /\ UNCHANGED <<active, created, now, channel, lst, wk>>

HandleExpiryCommitFails(fault) ==
    /\ lst.pc = "commit"
    /\ lst.rid \in Rows
    /\ lst' = IdleL
    /\ reservas' = IF Committed(fault) THEN SetEstado(lst.rid, EXPIRED) ELSE reservas
    /\ out' = Emitted(fault, <<Event("reservation_expired", lst.rid, SetEstado(lst.rid, EXPIRED)[lst.rid])>>)
    /\ resp' = Err("process_expired", FaultMessage(fault), lst.rid, NoSpace, 0)
    /\ UNCHANGED <<active, created, redis, now, channel, wk>>

CancelarReservaFails(s, fault) ==
    /\ UNCHANGED <<active, created, redis, now, channel, lst, wk>>
    /\ \E r \in RowsOf(s) :
          /\ reservas' = IF Committed(fault) THEN Delete(r) ELSE reservas
          /\ out' = Emitted(fault, <<Event("reservation_cancelled", r, reservas[r])>>)
          /\ resp' = Err("cancelar_reserva", FaultMessage(fault), r, s, 500)

\* the commands whose commit or emit raises
NextFaults ==
    \/ \E w \in Workers, fault \in Faults : CreateInsertFails(w, fault)
    \/ \E r \in ReservaIds, fault \in Faults : ConfirmReservationFails(r, fault)
    \/ \E r \in ReservaIds, fault \in Faults : CancelReservationFails(r, fault)
    \/ \E r \in ReservaIds, ttl \in TtlInputs, fault \in Faults :
          RefreshReservationTtlFails(r, ttl, fault)
    \/ \E fault \in Faults : HandleExpiryCommitFails(fault)
    \/ \E s \in Spaces, fault \in Faults : CancelarReservaFails(s, fault)
    \/ \E s \in Spaces : CancelarReserva(s)

\* the same commands when nothing raises
NextFaultless ==
    \/ \E w \in Workers, route \in {"api", "spaces"}, s \in SpaceInputs, u \in Owners :
          CreateCheck(w, route, s, u)
    \/ \E w \in Workers : CreateInsert(w)
    \/ \E r \in ReservaIds : ConfirmReservation(r)
    \/ \E r \in ReservaIds : CancelReservation(r)

\* create, confirm, cancel, refresh, expiry and DELETE /spaces/<id>/reserva,
\* with failing commits and emits
NextWithFaults == NextFaultless \/ NextExpiry \/ NextFaults
SpecFaults == Init /\ [][NextWithFaults]_vars

(* ------------------------ unattended expiry -------------------------- *)
\* Redis purges a lapsed key while nobody is subscribed to
\* __keyevent@0__:expired (the listener thread ends on the first exception of
\* its loop and is started once, at start-up): pub/sub keeps nothing.
NotificationLost(r) ==
    /\ Lapsed(r)
    /\ redis' = RedisDel(r)
    /\ resp' = NoResp
    /\ out' = <<>>
    /\ UNCHANGED <<active, reservas, created, now, channel, lst, wk>>

\* ttl_seconds of the refreshes that precede a lapse
LiveTtlInputs == {1}

NextLive ==
    \/ \E w \in Workers, s \in Spaces, u \in Owners : CreateCheck(w, "api", s, u)
    \/ \E w \in Workers : CreateInsert(w)
    \/ \E r \in ReservaIds : ConfirmReservation(r)
    \/ \E r \in ReservaIds, ttl \in SetTtlInputs : SetReservation(r, ttl)
    \/ \E r \in ReservaIds, ttl \in LiveTtlInputs : RefreshReservationTtl(r, ttl)
    \/ Tick
    \/ \E r \in ReservaIds : KeyExpires(r)
    \/ \E r \in ReservaIds : NotificationLost(r)
    \/ HandleExpiryRead
    \/ HandleExpiryCommit

\* The clock advances, Redis purges every lapsed key, and the listener thread,
\* blocked in pubsub.listen(), handles every message it has received.
LiveFairness ==
    /\ WF_vars(Tick)
    /\ \A r \in ReservaIds : WF_vars(KeyExpires(r) \/ NotificationLost(r))
    /\ WF_vars(HandleExpiryRead)
    /\ WF_vars(HandleExpiryCommit)

SpecLive == Init /\ [][NextLive]_vars /\ LiveFairness

(* ------------------- authentication and authorisation --------------- *)
\* who sends a request: no valid token, a user, or a user with the Admin role
AdminUser == MaxUsers + 1
Anonymous == [id |-> NoUser, authenticated |-> FALSE, admin |-> FALSE]
Callers ==
    {Anonymous}
      \cup {[id |-> u, authenticated |-> TRUE, admin |-> FALSE] : u \in Users}
      \cup {[id |-> AdminUser, authenticated |-> TRUE, admin |-> TRUE]}

\* the users whose UserProfile exists and has a non-empty email
CompleteProfiles == Owners \cup {AdminUser}
IsComplete(u) == u \in CompleteProfiles

\* the routes on reservations and the routes on spaces
ReservaRoutes ==
    {"confirm", "reject", "approve_cancellation", "reject_cancellation",
     "cancel", "request_cancellation"}
SpaceRoutes == {"create_api", "reservar", "cancelar_reserva"}
\* mutant: reject_reservation has lost its require_role decorator
AdminOnly_WithoutReject == {"confirm", "approve_cancellation", "reject_cancellation"}
\* the routes decorated with @require_role('Admin')
AdminOnly == {"confirm", "reject", "approve_cancellation", "reject_cancellation"}
\* the routes that look the caller's profile up before calling the service
ProfileChecked == {"create_api"}

\* the denial messages (the 403 of require_role without its list of roles)
ErrTokenRequerido == "Token de autenticacion requerido"
ErrAccesoDenegado == "Acceso denegado"
ErrPerfilIncompleto == "Debes completar tu perfil antes de hacer una reserva"

\* the answer of the decorators and of the checks in front of the service
\* call: 0 when the request goes on to the handler
Verdict(c, route) ==
    IF ~c.authenticated THEN 401
    ELSE IF route \in AdminOnly /\ ~c.admin THEN 403
    ELSE IF route \in ProfileChecked /\ ~IsComplete(c.id) THEN 403
    ELSE 0
VerdictMessage(c, route) ==
    IF ~c.authenticated THEN ErrTokenRequerido
    ELSE IF route \in AdminOnly /\ ~c.admin THEN ErrAccesoDenegado
    ELSE IF route \in ProfileChecked /\ ~IsComplete(c.id) THEN ErrPerfilIncompleto
    ELSE ""

\* a request arrives: the decorators answer it or pass it on (g.current_user)
RouteEnter(c, route, r, s) ==
    /\ resp' = [op |-> "route", ok |-> Verdict(c, route) = 0, err |-> VerdictMessage(c, route),
                rid |-> r, sid |-> s, arg |-> Verdict(c, route), raced |-> FALSE,
                route |-> route, caller |-> c]
    /\ out' = <<>>
    /\ UNCHANGED <<active, reservas, created, redis, now, channel, lst, wk>>

\* the request the decorators have passed on to the handler of `route`
Admitted(route) == resp.op = "route" /\ resp.ok /\ resp.route = route

ServeCreate ==
    /\ Admitted("create_api")
    /\ \E w \in Workers : CreateCheck(w, "api", resp.sid, resp.caller.id)
ServeReservar ==
    /\ Admitted("reservar")
    /\ \E w \in Workers : CreateCheck(w, "spaces", resp.sid, resp.caller.id)
ServeConfirm == Admitted("confirm") /\ ConfirmReservation(resp.rid)
ServeReject == Admitted("reject") /\ RejectReservation(resp.rid)
ServeCancel == Admitted("cancel") /\ CancelReservation(resp.rid)
ServeRequestCancellation ==
    Admitted("request_cancellation") /\ RequestCancellation(resp.rid, resp.caller.id)
ServeApproveCancellation == Admitted("approve_cancellation") /\ ApproveCancellation(resp.rid)
ServeRejectCancellation == Admitted("reject_cancellation") /\ RejectCancellation(resp.rid)
ServeCancelarReserva == Admitted("cancelar_reserva") /\ CancelarReserva(resp.sid)

\* the HTTP routes, each behind its decorators
NextRoutes ==
    \/ \E c \in Callers, route \in ReservaRoutes, r \in ReservaIds :
          RouteEnter(c, route, r, NoSpace)
    \/ \E c \in Callers, route \in SpaceRoutes, s \in Spaces :
          RouteEnter(c, route, NoReserva, s)
    \/ ServeCreate
    \/ ServeReservar
    \/ \E w \in Workers : CreateInsert(w)
    \/ ServeConfirm
    \/ ServeReject
    \/ ServeCancel
    \/ ServeRequestCancellation
    \/ ServeApproveCancellation
    \/ ServeRejectCancellation
    \/ ServeCancelarReserva

SpecAuth == Init /\ [][NextRoutes]_vars

(* ------------------------------ claims ------------------------------- *)
\* the states the specification counts as an active hold of a space
ActiveStates == {PENDING, RESERVED, CANCELLATION_REQUESTED}

\* C1 (invariant I1): in every reachable state each space has at most one
\* reservation in PENDING, RESERVED or CANCELLATION_REQUESTED.
C1_SingleActiveHold ==
    \A s \in Spaces : Cardinality(RowsIn(s, ActiveStates)) <= 1

\* C2: no create_reservation call returns a reservation when another call
\* for the same space returned one between its existence check and its insert.
C2_ConcurrentCreatesNotBothSucceed ==
    ~(resp.op = "create" /\ resp.ok /\ resp.raced)

\* C3: once RESERVED is committed for a reservation, no step makes it EXPIRED.
C3_ConfirmedNeverExpired ==
    [][\A r \in DOMAIN reservas \cap DOMAIN reservas' :
          reservas[r].estado = RESERVED => reservas'[r].estado # EXPIRED]_vars

C5_RefreshOnPendingEstablishesHold ==
    (resp.op = "refresh_ttl" /\ resp.rid \in Rows /\ reservas[resp.rid].estado = PENDING)
      => /\ resp.ok
         /\ Live(resp.rid)
         /\ redis[resp.rid] = now + EffectiveTtl(resp.arg)
         /\ reservas[resp.rid].expires_at = now + EffectiveTtl(resp.arg)
         /\ out = <<Event("reservation_updated", resp.rid, reservas[resp.rid])>>

\* C6: refresh_reservation_ttl on a reservation that is not PENDING fails with
\* the invalid-state error and changes neither the reservations, nor the
\* expiry store, nor emits an event.
C6_RefreshOnNonPendingFails ==
    [][(resp'.op = "refresh_ttl" /\ resp'.rid \in Rows /\ reservas[resp'.rid].estado # PENDING)
        => /\ ~resp'.ok
           /\ resp'.err = ErrSoloRenovarPendientes
           /\ reservas' = reservas
           /\ redis' = redis
           /\ channel' = channel
           /\ out' = <<>>]_vars

C6_Witness ==
    /\ resp.op = "refresh_ttl"
    /\ resp.err = ErrSoloRenovarPendientes
    /\ resp.rid \in Rows
    /\ reservas[resp.rid].estado = RESERVED
    /\ Live(resp.rid)

\* C7 (invariant I2): a reservation in RESERVED or CANCELLATION_REQUESTED has
\* no live entry in the expiry store.
C7_NoLiveEntryUnlessPending ==
    \A r \in Rows :
        reservas[r].estado \in {RESERVED, CANCELLATION_REQUESTED} => ~Live(r)

\* C8: confirm_reservation succeeds exactly when the reservation exists and is
\* PENDING; on success the state is RESERVED, the reservation has no expiry
\* entry and reservation_updated is emitted once; otherwise it returns an
\* error, changes no reservation and emits nothing.
C8_ConfirmContract ==
    [][resp'.op = "confirm" =>
         IF resp'.rid \in Rows /\ reservas[resp'.rid].estado = PENDING
           THEN /\ resp'.ok
                /\ reservas'[resp'.rid].estado = RESERVED
                /\ resp'.rid \notin DOMAIN redis'
                /\ out' = <<Event("reservation_updated", resp'.rid, reservas'[resp'.rid])>>
           ELSE /\ ~resp'.ok
                /\ reservas' = reservas
                /\ out' = <<>>]_vars

C11_CreateRefusedWhileCancellationRequested ==
    [][\A w \in Workers :
          (wk[w].pc = "idle" /\ wk'[w].pc = "create_insert")
            => RowsIn(wk'[w].sid, {CANCELLATION_REQUESTED}) = {}]_vars

\* C12: reject_reservation succeeds exactly when the reservation exists and is
\* PENDING; it then sets CANCELLED and emits reservation_cancelled once;
\* otherwise it returns an error, changes no reservation and emits nothing.
C12_RejectContract ==
    [][resp'.op = "reject" =>
         IF resp'.rid \in Rows /\ reservas[resp'.rid].estado = PENDING
           THEN /\ resp'.ok
                /\ reservas' = SetEstado(resp'.rid, CANCELLED)
                /\ out' = <<Event("reservation_cancelled", resp'.rid, reservas'[resp'.rid])>>
           ELSE /\ ~resp'.ok
                /\ reservas' = reservas
                /\ out' = <<>>]_vars

C12_Witness ==
    /\ resp.op = "reject"
    /\ ~resp.ok
    /\ resp.rid \in Rows
    /\ reservas[resp.rid].estado = RESERVED
    /\ out = <<>>

\* C13: cancel_reservation succeeds exactly when the reservation exists and is
\* PENDING or RESERVED; it then sets CANCELLED, leaves no expiry entry for the
\* reservation and emits reservation_cancelled once; otherwise (CANCELLED,
\* EXPIRED, CANCELLATION_REQUESTED, missing) it returns an error and changes
\* neither the reservations nor the expiry store.
C13_CancelContract ==
    [][resp'.op = "cancel" =>
         IF resp'.rid \in Rows /\ reservas[resp'.rid].estado \in {PENDING, RESERVED}
           THEN /\ resp'.ok
                /\ reservas' = SetEstado(resp'.rid, CANCELLED)
                /\ resp'.rid \notin DOMAIN redis'
                /\ \A i \in DOMAIN redis \ {resp'.rid} : i \in DOMAIN redis' /\ redis'[i] = redis[i]
                /\ out' = <<Event("reservation_cancelled", resp'.rid, reservas'[resp'.rid])>>
           ELSE /\ ~resp'.ok
                /\ reservas' = reservas
                /\ redis' = redis
                /\ out' = <<>>]_vars

C13_Witness ==
    /\ resp.op = "cancel"
    /\ ~resp.ok
    /\ resp.rid \in Rows
    /\ reservas[resp.rid].estado = CANCELLATION_REQUESTED
    /\ Live(resp.rid)

\* C14: request_cancellation by someone other than the reservation's user_id
\* fails (forbidden) with the state unchanged; by the owner, a PENDING
\* reservation becomes CANCELLED with reservation_cancelled, a RESERVED one
\* becomes CANCELLATION_REQUESTED with cancellation_requested, and any other
\* state fails (invalid state) with nothing changed.
C14_RequestCancellationContract ==
    [][(resp'.op = "request_cancellation" /\ resp'.rid \in Rows) =>
         LET r == resp'.rid
             e == reservas[r].estado
         IN IF reservas[r].user_id # resp'.arg
              THEN ~resp'.ok /\ resp'.err = ErrNoPermiso /\ reservas' = reservas /\ out' = <<>>
            ELSE IF e = PENDING
              THEN /\ resp'.ok
                   /\ reservas' = SetEstado(r, CANCELLED)
                   /\ out' = <<Event("reservation_cancelled", r, reservas'[r])>>
            ELSE IF e = RESERVED
              THEN /\ resp'.ok
                   /\ reservas' = SetEstado(r, CANCELLATION_REQUESTED)
                   /\ out' = <<Event("cancellation_requested", r, reservas'[r])>>
            ELSE ~resp'.ok /\ resp'.err = ErrNoCancelable /\ reservas' = reservas /\ out' = <<>>]_vars

C14_Witness ==
    /\ resp.op = "request_cancellation"
    /\ resp.err = ErrNoPermiso
    /\ resp.rid \in Rows
    /\ reservas[resp.rid].estado = RESERVED
    /\ reservas[resp.rid].user_id # resp.arg

\* C15: approve_cancellation succeeds (200) exactly from
\* CANCELLATION_REQUESTED, setting CANCELLED and emitting
\* reservation_cancelled; from any other state it answers 400 and for a
\* missing reservation 404, changing nothing and emitting nothing.
C15_ApproveCancellationContract ==
    [][resp'.op = "approve_cancellation" =>
         LET r == resp'.rid
         IN IF r \notin Rows
              THEN ~resp'.ok /\ resp'.arg = 404 /\ reservas' = reservas /\ out' = <<>>
            ELSE IF reservas[r].estado # CANCELLATION_REQUESTED
              THEN ~resp'.ok /\ resp'.arg = 400 /\ reservas' = reservas /\ out' = <<>>
            ELSE /\ resp'.ok /\ resp'.arg = 200
                 /\ reservas' = SetEstado(r, CANCELLED)
                 /\ out' = <<Event("reservation_cancelled", r, reservas'[r])>>]_vars

C15_Witness ==
    /\ resp.op = "approve_cancellation"
    /\ resp.ok
    /\ reservas[resp.rid].estado = CANCELLED
    /\ Len(out) = 1
    /\ out[1].event = "reservation_cancelled"

\* C16: reject_cancellation succeeds (200) exactly from
\* CANCELLATION_REQUESTED, setting RESERVED and emitting reservation_updated;
\* from any other state it answers 400 and for a missing reservation 404,
\* changing nothing and emitting nothing.
C16_DenyCancellationContract ==
    [][resp'.op = "reject_cancellation" =>
         LET r == resp'.rid
         IN IF r \notin Rows
              THEN ~resp'.ok /\ resp'.arg = 404 /\ reservas' = reservas /\ out' = <<>>
            ELSE IF reservas[r].estado # CANCELLATION_REQUESTED
              THEN ~resp'.ok /\ resp'.arg = 400 /\ reservas' = reservas /\ out' = <<>>
            ELSE /\ resp'.ok /\ resp'.arg = 200
                 /\ reservas' = SetEstado(r, RESERVED)
                 /\ out' = <<Event("reservation_updated", r, reservas'[r])>>]_vars

C16_Witness ==
    /\ resp.op = "reject_cancellation"
    /\ resp.ok
    /\ reservas[resp.rid].estado = RESERVED
    /\ Len(out) = 1
    /\ out[1].event = "reservation_updated"

\* C17: EXPIRED and CANCELLED are terminal: no step changes the state of a
\* reservation whose persisted state is EXPIRED or CANCELLED.
C17_TerminalStatesStay ==
    [][\A r \in Rows \cap DOMAIN reservas' :
          reservas[r].estado \in {EXPIRED, CANCELLED}
            => reservas'[r].estado = reservas[r].estado]_vars

\* C18: in every reachable state every reservation's state is one of
\* PENDING, RESERVED, EXPIRED, CANCELLED, CANCELLATION_REQUESTED.
C18_StatesAreTheFive ==
    \A r \in Rows :
        reservas[r].estado \in {PENDING, RESERVED, EXPIRED, CANCELLED, CANCELLATION_REQUESTED}

\* the transitions the state machine of the reservation service allows
ServiceTransitions ==
    { <<PENDING, RESERVED>>, <<PENDING, CANCELLED>>, <<PENDING, EXPIRED>>,
      <<RESERVED, CANCELLED>>, <<RESERVED, CANCELLATION_REQUESTED>>,
      <<CANCELLATION_REQUESTED, CANCELLED>>, <<CANCELLATION_REQUESTED, RESERVED>> }

\* C19: every reservation row is PENDING in the state where it first exists,
\* whichever operation inserts it, and a PATCH /spaces/<id> with a status
\* changes the state of existing rows only along transitions of the service.
C19_RecordsStartPending ==
    [][/\ \A r \in DOMAIN reservas' \ Rows : reservas'[r].estado = PENDING
       /\ resp'.op = "update_space"
            => \A r \in Rows \cap DOMAIN reservas' :
                  reservas'[r].estado # reservas[r].estado
                    => <<reservas[r].estado, reservas'[r].estado>> \in ServiceTransitions]_vars

\* C20: every step that inserts a reservation or changes a reservation's
\* state emits a reservation_* event (or cancellation_requested) carrying that
\* reservation in its new state and the plan id of its space.
C20_EveryChangeIsBroadcast ==
    [][\A r \in DOMAIN reservas' :
          (r \notin Rows \/ reservas'[r].estado # reservas[r].estado)
            => \E i \in DOMAIN out' :
                  /\ out'[i].event \in {"reservation_created", "reservation_updated",
                                        "reservation_expired", "reservation_cancelled",
                                        "cancellation_requested"}
                  /\ out'[i].rid = r
                  /\ out'[i].estado = reservas'[r].estado
                  /\ out'[i].plano_id = PlanoOf(reservas'[r].espacio_id)]_vars

\* C21: a reservation event is emitted only by a step whose commit succeeded:
\* the row it carries is persisted in the state the event carries (or was
\* deleted by that step), and a command that returns an error has emitted
\* nothing.
C21_EmitOnlyAfterCommit ==
    [][/\ resp'.err # "" => out' = <<>>
       /\ \A i \in DOMAIN out' :
            out'[i].event # "space_updated"
              => \/ /\ out'[i].rid \in DOMAIN reservas'
                    /\ reservas'[out'[i].rid].estado = out'[i].estado
                 \/ out'[i].rid \in Rows \ DOMAIN reservas']_vars

C21_Witness ==
    /\ resp.op = "process_expired"
    /\ resp.err = ErrStorage
    /\ resp.rid \in Rows
    /\ reservas[resp.rid].estado = PENDING
    /\ out = <<>>

\* C22: a command that has committed a change to the reservations returns its
\* successful result, also when the emit that follows the commit raises.
C22_BroadcastFailureDoesNotFailCommand ==
    [][(resp'.op \in {"create", "confirm", "cancel", "refresh_ttl"} /\ reservas' # reservas)
        => resp'.ok]_vars

\* C23: when cancel_reservation or refresh_reservation_ttl fails at the
\* database commit, the reservations and the expiry store are as before the call.
C23_NoPartialStateOnStorageFailure ==
    [][(resp'.op \in {"cancel", "refresh_ttl"} /\ resp'.err = ErrStorage)
        => (reservas' = reservas /\ redis' = redis)]_vars

\* C24: once the reservations of a space are all EXPIRED or CANCELLED, a
\* create_reservation on that space is not refused by the service: every
\* refusal for an existing space finds a reservation that is neither.
C24_ReservableAgainAfterHoldEnds ==
    [][(resp'.op = "create" /\ ~resp'.ok /\ resp'.sid \in Spaces /\ resp'.err # ErrBloqueado)
        => \E r \in RowsOf(resp'.sid) : reservas[r].estado \notin {EXPIRED, CANCELLED}]_vars

C24_Witness ==
    /\ resp.op = "create"
    /\ resp.ok
    /\ resp.rid \in Rows
    /\ reservas[resp.rid].estado = PENDING
    /\ \E r \in RowsOf(resp.sid) : reservas[r].estado = EXPIRED
    /\ RowsIn(resp.sid, ActiveStates) = {resp.rid}

\* a PENDING reservation whose expires_at has passed and that has no live marker
LapsedHold(r) ==
    /\ r \in Rows
    /\ reservas[r].estado = PENDING
    /\ reservas[r].expires_at # NoTime
    /\ reservas[r].expires_at <= now
    /\ ~Live(r)

\* C25: under fairness, a reservation that is PENDING with a lapsed hold
\* eventually stops being so: it is expired (or has left PENDING, or has been
\* given a new hold), also when the lapse notification was lost.
C25_LapsedHoldsEventuallyExpire ==
    \A r \in ReservaIds : LapsedHold(r) ~> ~LapsedHold(r)

\* C26: confirm, reject, approve-cancellation and deny-cancellation are
\* answered 401 to a caller without a valid token and 403 to a caller without
\* the Admin role, with no reservation changed and no event sent; a step of
\* one of the four handlers is always taken for an admitted Admin caller.
C26_AdminTransitionsGuarded ==
    [][/\ (/\ resp'.op = "route"
           /\ resp'.route \in {"confirm", "reject", "approve_cancellation",
                               "reject_cancellation"}
           /\ ~resp'.caller.admin)
          => /\ ~resp'.ok
             /\ resp'.arg = (IF resp'.caller.authenticated THEN 403 ELSE 401)
             /\ reservas' = reservas
             /\ out' = <<>>
       /\ resp'.op \in {"confirm", "reject", "approve_cancellation", "reject_cancellation"}
          => /\ resp.op = "route"
             /\ resp.caller.authenticated
             /\ resp.caller.admin]_vars

C26_Witness ==
    /\ resp.op = "route"
    /\ resp.route = "reject"
    /\ resp.caller.authenticated
    /\ resp.arg = 403
    /\ resp.rid \in Rows
    /\ reservas[resp.rid].estado = PENDING

\* C27: a reservation is cancelled through DELETE /api/reservas/<id> or
\* DELETE /spaces/<id>/reserva only for a caller who owns it or is Admin.
C27_CancelOnlyByOwnerOrAdmin ==
    [][(resp'.op \in {"cancel", "cancelar_reserva"} /\ resp'.ok)
        => /\ resp.op = "route"
           /\ resp'.rid \in Rows
           /\ \/ resp.caller.admin
              \/ resp.caller.id = reservas[resp'.rid].user_id]_vars

\* C28: no reservation is created for a user whose profile is missing or has
\* an empty email, through POST /api/reservas or POST /spaces/<id>/reservar,
\* and such a create request is answered 403.
C28_CreateRequiresCompleteProfile ==
    [][/\ \A r \in DOMAIN reservas' \ Rows : IsComplete(reservas'[r].user_id)
       /\ (/\ resp'.op = "route"
           /\ resp'.route \in {"create_api", "reservar"}
           /\ resp'.caller.authenticated
           /\ ~IsComplete(resp'.caller.id))
          => ~resp'.ok /\ resp'.arg = 403]_vars

\* C29: a create command that reaches create_reservation while the space's
\* active flag is false is refused: it does not go on to insert a PENDING
\* reservation for that space.
C29_NoCreateOnBlockedSpace ==
    [][\A w \in Workers :
          (wk[w].pc = "idle" /\ wk'[w].pc = "create_insert") => active[wk'[w].sid]]_vars

\* C30: after a successful DELETE /spaces/<id>/reserva, and after a PATCH
\* /spaces/<id> that leaves the space blocked, the space has no reservation
\* in PENDING, RESERVED or CANCELLATION_REQUESTED.
C30_FreedSpaceHasNoActiveReservation ==
    (/\ resp.ok
     /\ \/ resp.op = "cancelar_reserva"
        \/ resp.op = "update_space" /\ ~active[resp.sid])
      => RowsIn(resp.sid, ActiveStates) = {}
====
